---- MODULE Spec2Model ----
(***************************************************************************)
(* Model of lib/registry/security/security.go: the registry security       *)
(* Config, its defaulting (ApplyDefaults), credential resolution           *)
(* (BasicAuthConfig.Get, getCredentials, getCredentialFromHelper) and the  *)
(* composition of the HTTP send option (GetHTTPOption).                    *)
(*                                                                         *)
(* Go pointers are modelled as addresses into heaps (0 is nil); a Config   *)
(* is a value holding two pointers and a string, as in the source.        *)
(* Secrets are sequences of characters, so that "entire contents" and a    *)
(* trimmed reading of a password file differ.                              *)
(***************************************************************************)
EXTENDS Integers, Sequences, FiniteSets, TLC

VARIABLES
    tlsHeap,          \* the *httputil.TLSConfig objects, by address
    baHeap,           \* the *BasicAuthConfig objects, by address
    sslCertDir,       \* the SSL_CERT_DIR environment variable ("" when unset)
    defaultTransport, \* the process-wide http.DefaultTransport
    issued,           \* basic-auth send options returned so far and still held
    last              \* the most recent call: receiver, inputs, result

vars == <<tlsHeap, baHeap, sslCertDir, defaultTransport, issued, last>>

-----------------------------------------------------------------------------
(* Bounds *)

\* number of addresses of the TLSConfig heap (ApplyDefaults allocates)
MaxTLSObjs == 3
\* number of returned basic-auth options the caller holds on to
MaxIssued == 1

NilPtr == 0
TLSAddrs == 1..MaxTLSObjs
BasicAddrs == {1}

NoErr == ""
Strs == {"", "h"}
Addrs == {"a.example.com", "b.example.com"}
Repos == {"repo"}
CAPaths == {"", "/ca"}
EnvValues == {"", "/env"}
Usernames == {"", "u"}
Passwords == {<<>>, <<"p">>}
Tokens == {<<>>, <<"t">>}
ServerAddresses == {"", "static.example.com"}
PasswordFiles == {"", "/pw"}
FileContents == {<<"f", "\n">>, <<"g">>}
HelperUsernames == {"<token>", "bob"}
HelperSecrets == {<<"s">>}
HelperServerURLs == {"other.example.com"}

-----------------------------------------------------------------------------
(* Values *)

tokenUsername == "<token>"

\* pathutils.DefaultCACertsPath
DefaultCACertsPath == "/etc/ssl/certs"

\* types.AuthConfig (the fields this file reads or writes)
EmptyAuthConfig ==
    [Username |-> "", Password |-> <<>>, IdentityToken |-> <<>>, ServerAddress |-> ""]

\* the embedded types.AuthConfig of a BasicAuthConfig
AuthConfigOf(b) ==
    [Username |-> b.Username, Password |-> b.Password,
     IdentityToken |-> b.IdentityToken, ServerAddress |-> b.ServerAddress]

BasicAuthConfigs ==
    [Username : Usernames, Password : Passwords, IdentityToken : Tokens,
     ServerAddress : ServerAddresses, PasswordFile : PasswordFiles]

\* an address of the TLS heap not yet allocated, and an allocated TLSConfig
FreeTLS == [alloc |-> FALSE, caPath |-> ""]
NewTLSConfig == [alloc |-> TRUE, caPath |-> ""]

\* a nil *tls.Config
NilTLSClientConfig == [nil |-> TRUE, caPath |-> ""]

\* Config values over the pointers the caller holds
Configs ==
    [TLS : {NilPtr} \cup {a \in TLSAddrs : tlsHeap[a].alloc},
     BasicAuth : {NilPtr} \cup BasicAddrs,
     RemoteCredentialsStore : Strs]

\* outcomes of ioutil.ReadFile on the password file
FileOutcomes ==
    {[err |-> TRUE, data |-> <<>>]} \cup {[err |-> FALSE, data |-> d] : d \in FileContents}

\* outcomes of client.Get on the credential helper
HelperOutcomes ==
    {[err |-> TRUE, Username |-> "", Secret |-> <<>>, ServerURL |-> ""]}
    \cup [err : {FALSE}, Username : HelperUsernames, Secret : HelperSecrets,
          ServerURL : HelperServerURLs]

-----------------------------------------------------------------------------
(* BasicAuthConfig.Get *)

\* Get with the line breaks of the file's contents stripped
Get_trimmed(heap, p, file) ==
    IF heap[p].PasswordFile # ""
    THEN IF file.err
         THEN [auth |-> EmptyAuthConfig, err |-> "read password file", heap |-> heap, reads |-> 1]
         ELSE LET d == SelectSeq(file.data, LAMBDA ch : ch # "\n")
                  h == [heap EXCEPT ![p].Password = d]
              IN [auth |-> AuthConfigOf(h[p]), err |-> NoErr, heap |-> h, reads |-> 1]
    ELSE [auth |-> AuthConfigOf(heap[p]), err |-> NoErr, heap |-> heap, reads |-> 0]

\* func (c *BasicAuthConfig) Get(): the receiver is a pointer, so the write
\* to c.AuthConfig.Password is a write to the heap object.
Get(heap, p, file) ==
    IF heap[p].PasswordFile # ""
    THEN IF file.err
         THEN [auth |-> EmptyAuthConfig, err |-> "read password file", heap |-> heap, reads |-> 1]
         ELSE LET h == [heap EXCEPT ![p].Password = file.data]
              IN [auth |-> AuthConfigOf(h[p]), err |-> NoErr, heap |-> h, reads |-> 1]
    ELSE [auth |-> AuthConfigOf(heap[p]), err |-> NoErr, heap |-> heap, reads |-> 0]

-----------------------------------------------------------------------------
(* Config.getCredentialFromHelper and Config.getCredentials *)

\* func (c Config) getCredentialFromHelper(helper, addr): h is what client.Get
\* returns for addr, file what ReadFile returns inside c.BasicAuth.Get().
getCredentialFromHelper(c, heap, helper, addr, h, file) ==
    IF h.err
    THEN [auth |-> EmptyAuthConfig, err |-> "helper failed", heap |-> heap,
          reads |-> 0, helperCalls |-> 1]
    ELSE LET base == IF c.BasicAuth # NilPtr
                     THEN Get(heap, c.BasicAuth, file)
                     ELSE [auth |-> EmptyAuthConfig, err |-> NoErr, heap |-> heap, reads |-> 0]
             ret == [base.auth EXCEPT !.ServerAddress = addr]
         IN IF base.err # NoErr
            THEN [auth |-> EmptyAuthConfig, err |-> "get basic auth config: " \o base.err,
                  heap |-> base.heap, reads |-> base.reads, helperCalls |-> 1]
            ELSE [auth |-> IF h.Username = tokenUsername
                           THEN [ret EXCEPT !.IdentityToken = h.Secret]
                           ELSE [ret EXCEPT !.Password = h.Secret, !.Username = h.Username],
                  err |-> NoErr, heap |-> base.heap, reads |-> base.reads, helperCalls |-> 1]

\* getCredentials that falls back to the static credentials when the helper fails
getCredentials_fallback(c, heap, helper, addr, file1, h, file2) ==
    LET base == IF c.BasicAuth # NilPtr
                THEN Get(heap, c.BasicAuth, file1)
                ELSE [auth |-> EmptyAuthConfig, err |-> NoErr, heap |-> heap, reads |-> 0]
        r == getCredentialFromHelper(c, base.heap, helper, addr, h, file2)
    IN IF base.err # NoErr
       THEN [auth |-> EmptyAuthConfig, err |-> "get basic auth config: " \o base.err,
             heap |-> base.heap, reads |-> base.reads, helperCalls |-> 0]
       ELSE IF helper # "" /\ r.err = NoErr
            THEN [auth |-> r.auth, err |-> NoErr, heap |-> r.heap,
                  reads |-> base.reads + r.reads, helperCalls |-> r.helperCalls]
            ELSE [auth |-> base.auth, err |-> NoErr, heap |-> base.heap,
                  reads |-> base.reads, helperCalls |-> IF helper # "" THEN 1 ELSE 0]

\* func (c Config) getCredentials(helper, addr): file1 is the read made by the
\* first c.BasicAuth.Get(), h and file2 are the inputs of getCredentialFromHelper.
getCredentials(c, heap, helper, addr, file1, h, file2) ==
    LET base == IF c.BasicAuth # NilPtr
                THEN Get(heap, c.BasicAuth, file1)
                ELSE [auth |-> EmptyAuthConfig, err |-> NoErr, heap |-> heap, reads |-> 0]
        r == getCredentialFromHelper(c, base.heap, helper, addr, h, file2)
    IN IF base.err # NoErr
       THEN [auth |-> EmptyAuthConfig, err |-> "get basic auth config: " \o base.err,
             heap |-> base.heap, reads |-> base.reads, helperCalls |-> 0]
       ELSE IF helper # ""
            THEN IF r.err # NoErr
                 THEN [auth |-> EmptyAuthConfig,
                       err |-> "get credentials from helper: " \o r.err,
                       heap |-> r.heap, reads |-> base.reads + r.reads,
                       helperCalls |-> r.helperCalls]
                 ELSE [auth |-> r.auth, err |-> NoErr, heap |-> r.heap,
                       reads |-> base.reads + r.reads, helperCalls |-> r.helperCalls]
            ELSE [auth |-> base.auth, err |-> NoErr, heap |-> base.heap,
                  reads |-> base.reads, helperCalls |-> 0]

-----------------------------------------------------------------------------
(* Config.ApplyDefaults *)

\* utils.DefaultEnv(key, default): the variable's value, or the default when
\* the variable is not set ("" stands for not set)
DefaultEnv(value, default) == IF value = "" THEN default ELSE value

\* the address new(httputil.TLSConfig) returns
FreshTLS(heap) == CHOOSE a \in TLSAddrs : ~heap[a].alloc /\ \A b \in TLSAddrs : ~heap[b].alloc => a <= b

\* ApplyDefaults that overwrites an explicitly configured CA path as well
ApplyDefaults_overwrite(c, heap, env) ==
    LET a == IF c.TLS = NilPtr THEN FreshTLS(heap) ELSE c.TLS
        h1 == IF c.TLS = NilPtr THEN [heap EXCEPT ![a] = NewTLSConfig] ELSE heap
    IN [ret |-> [c EXCEPT !.TLS = a],
        heap |-> [h1 EXCEPT ![a].caPath = DefaultEnv(env, DefaultCACertsPath)]]

\* func (c Config) ApplyDefaults(): c is a copy of the receiver, c.TLS is the
\* receiver's pointer, so c.TLS.CA.Cert.Path = ... writes the shared TLSConfig.
ApplyDefaults(c, heap, env) ==
    LET a == IF c.TLS = NilPtr THEN FreshTLS(heap) ELSE c.TLS
        h1 == IF c.TLS = NilPtr THEN [heap EXCEPT ![a] = NewTLSConfig] ELSE heap
        h2 == IF h1[a].caPath = ""
              THEN [h1 EXCEPT ![a].caPath = DefaultEnv(env, DefaultCACertsPath)]
              ELSE h1
    IN [ret |-> [c EXCEPT !.TLS = a], heap |-> h2]

-----------------------------------------------------------------------------
(* Send options and Config.GetHTTPOption *)

\* the one *http.Transport every call obtains from http.DefaultTransport
DefaultTransportPtr == "http.DefaultTransport"

NoRoundTripper ==
    [addr |-> "", repo |-> "", tr |-> "", authConfig |-> EmptyAuthConfig]

\* a nil httputil.SendOption
NoOption == [kind |-> "nil", tls |-> NilTLSClientConfig, rt |-> NoRoundTripper]

SendNoop == [kind |-> "Noop", tls |-> NilTLSClientConfig, rt |-> NoRoundTripper]

SendTLS(tlsClientConfig) ==
    [kind |-> "TLS", tls |-> tlsClientConfig, rt |-> NoRoundTripper]

SendTLSTransport(rt) ==
    [kind |-> "TLSTransport", tls |-> NilTLSClientConfig, rt |-> rt]

\* (*httputil.TLSConfig).BuildClient: the context of the spec, or an error
BuildClient(tls, ok) ==
    IF ok
    THEN [config |-> [nil |-> FALSE, caPath |-> tls.caPath], err |-> NoErr]
    ELSE [config |-> NilTLSClientConfig, err |-> "bad tls config"]

\* BasicAuthTransport(addr, repo, tr, authConfig): a round tripper over tr
\* that injects authConfig for (addr, repo), or an error
BasicAuthTransport(addr, repo, tr, authConfig, ok) ==
    IF ok
    THEN [rt |-> [addr |-> addr, repo |-> repo, tr |-> tr, authConfig |-> authConfig],
          err |-> NoErr]
    ELSE [rt |-> NoRoundTripper, err |-> "ping failed"]

\* shouldUseBasicAuth with the helper-name test inverted
shouldUseBasicAuth_inverted(c) ==
    c.BasicAuth # NilPtr \/ c.RemoteCredentialsStore = ""

\* shouldUseBasicAuth that looks at the static credentials only
shouldUseBasicAuth_staticOnly(c) ==
    c.BasicAuth # NilPtr

\* shouldUseBasicAuth := (c.BasicAuth != nil || c.RemoteCredentialsStore != "")
shouldUseBasicAuth(c) ==
    c.BasicAuth # NilPtr \/ c.RemoteCredentialsStore # ""

\* the result of a call that did not reach getCredentials
Unresolved(heap) ==
    [auth |-> EmptyAuthConfig, err |-> NoErr, heap |-> heap, reads |-> 0, helperCalls |-> 0]

\* func (c Config) GetHTTPOption(addr, repo). tlsH, baH and tr are the heaps
\* and the global transport before the call; in holds what the environment
\* answers: in.tlsOk (BuildClient), in.file1, in.helper, in.file2
\* (getCredentials), in.batOk (BasicAuthTransport).
GetHTTPOption(c, tlsH, baH, tr, addr, repo, in) ==
    LET built == IF c.TLS # NilPtr
                 THEN BuildClient(tlsH[c.TLS], in.tlsOk)
                 ELSE [config |-> NilTLSClientConfig, err |-> NoErr]
        cred == getCredentials(c, baH, c.RemoteCredentialsStore, addr,
                               in.file1, in.helper, in.file2)
        tr2 == [tr EXCEPT !.TLSClientConfig = built.config]
        bat == BasicAuthTransport(addr, repo, DefaultTransportPtr, cred.auth, in.batOk)
    IN IF built.err # NoErr
       THEN [opt |-> NoOption, err |-> "build tls config: " \o built.err,
             tlsClientConfig |-> built.config, resolved |-> FALSE,
             cred |-> Unresolved(baH), baHeap |-> baH, transport |-> tr]
       ELSE IF c.TLS # NilPtr /\ ~shouldUseBasicAuth(c)
       THEN [opt |-> SendTLS(built.config), err |-> NoErr,
             tlsClientConfig |-> built.config, resolved |-> FALSE,
             cred |-> Unresolved(baH), baHeap |-> baH, transport |-> tr]
       ELSE IF shouldUseBasicAuth(c)
       THEN IF cred.err # NoErr
            THEN [opt |-> NoOption, err |-> "get credentials: " \o cred.err,
                  tlsClientConfig |-> built.config, resolved |-> TRUE,
                  cred |-> cred, baHeap |-> cred.heap, transport |-> tr]
            ELSE IF bat.err # NoErr
            THEN [opt |-> NoOption, err |-> "basic auth: " \o bat.err,
                  tlsClientConfig |-> built.config, resolved |-> TRUE,
                  cred |-> cred, baHeap |-> cred.heap, transport |-> tr2]
            ELSE [opt |-> SendTLSTransport(bat.rt), err |-> NoErr,
                  tlsClientConfig |-> built.config, resolved |-> TRUE,
                  cred |-> cred, baHeap |-> cred.heap, transport |-> tr2]
       ELSE [opt |-> SendNoop, err |-> NoErr,
             tlsClientConfig |-> built.config, resolved |-> FALSE,
             cred |-> Unresolved(baH), baHeap |-> baH, transport |-> tr]

-----------------------------------------------------------------------------
(* Inputs of a call: what the environment answers to the reads the call makes *)

NotRead == [err |-> FALSE, data |-> <<>>]
NotInvoked == [err |-> TRUE, Username |-> "", Secret |-> <<>>, ServerURL |-> ""]

HasPasswordFile(c) ==
    c.BasicAuth # NilPtr /\ baHeap[c.BasicAuth].PasswordFile # ""

CredentialInputs(c) ==
    [file1 : IF HasPasswordFile(c) THEN FileOutcomes ELSE {NotRead},
     helper : IF c.RemoteCredentialsStore # "" THEN HelperOutcomes ELSE {NotInvoked},
     file2 : IF HasPasswordFile(c) /\ c.RemoteCredentialsStore # ""
             THEN FileOutcomes ELSE {NotRead}]

OptionInputs(c) ==
    [tlsOk : IF c.TLS # NilPtr THEN BOOLEAN ELSE {TRUE},
     file1 : IF HasPasswordFile(c) THEN FileOutcomes ELSE {NotRead},
     helper : IF c.RemoteCredentialsStore # "" THEN HelperOutcomes ELSE {NotInvoked},
     file2 : IF HasPasswordFile(c) /\ c.RemoteCredentialsStore # ""
             THEN FileOutcomes ELSE {NotRead},
     batOk : IF shouldUseBasicAuth(c) THEN BOOLEAN ELSE {TRUE}]

-----------------------------------------------------------------------------
(* Initial states *)

NoCall == [op |-> "none"]

\* TLS heaps with two TLSConfig objects, each with or without an explicit CA path
InitTLSHeaps ==
    {h \in [TLSAddrs -> [alloc : BOOLEAN, caPath : CAPaths]] :
        \A a \in TLSAddrs : IF a <= 2 THEN h[a].alloc ELSE h[a] = FreeTLS}

\* the TLS heap with one TLSConfig without and one with an explicit CA path
TwoTLSConfigs ==
    [a \in TLSAddrs |-> IF a = 1 THEN [alloc |-> TRUE, caPath |-> ""]
                        ELSE IF a = 2 THEN [alloc |-> TRUE, caPath |-> "/ca"]
                        ELSE FreeTLS]

InitRest ==
    /\ defaultTransport = [TLSClientConfig |-> NilTLSClientConfig]
    /\ issued = {}
    /\ last = NoCall

InitDefaults ==
    /\ tlsHeap \in InitTLSHeaps
    /\ baHeap \in [BasicAddrs -> {b \in BasicAuthConfigs : b.IdentityToken = <<>> /\ b.ServerAddress = ""}]
    /\ sslCertDir \in EnvValues
    /\ InitRest

InitCreds ==
    /\ tlsHeap = TwoTLSConfigs
    /\ baHeap \in [BasicAddrs -> BasicAuthConfigs]
    /\ sslCertDir = ""
    /\ InitRest

Init ==
    /\ tlsHeap = TwoTLSConfigs
    /\ baHeap \in [BasicAddrs -> {b \in BasicAuthConfigs : b.IdentityToken = <<>> /\ b.ServerAddress = ""}]
    /\ sslCertDir = ""
    /\ InitRest

-----------------------------------------------------------------------------
(* Actions: one call of an operation by a caller holding the heap objects.  *)
(* A call is made when no result is pending; the caller then takes the      *)
(* result, which ends the call.                                            *)

CallApplyDefaults ==
    \E c \in Configs :
        /\ last = NoCall
        /\ c.TLS = NilPtr => \E a \in TLSAddrs : ~tlsHeap[a].alloc
        /\ LET r == ApplyDefaults(c, tlsHeap, sslCertDir)
           IN /\ tlsHeap' = r.heap
              /\ last' = [op |-> "ApplyDefaults", c |-> c, tlsBefore |-> tlsHeap,
                          ret |-> r.ret]
        /\ UNCHANGED <<baHeap, sslCertDir, defaultTransport, issued>>

CallGetCredentials ==
    \E c \in Configs, addr \in Addrs :
        \E in \in CredentialInputs(c) :
            /\ last = NoCall
            /\ LET r == getCredentials(c, baHeap, c.RemoteCredentialsStore, addr,
                                    in.file1, in.helper, in.file2)
               IN /\ baHeap' = r.heap
                  /\ last' = [op |-> "getCredentials", c |-> c, addr |-> addr, in |-> in,
                              baBefore |-> baHeap, res |-> r]
                  /\ UNCHANGED <<tlsHeap, sslCertDir, defaultTransport, issued>>

CallGetHTTPOption ==
    \E c \in Configs, addr \in Addrs, repo \in Repos :
        \E in \in OptionInputs(c) :
            /\ last = NoCall
            /\ LET r == GetHTTPOption(c, tlsHeap, baHeap, defaultTransport, addr, repo, in)
               IN /\ baHeap' = r.baHeap
                  /\ defaultTransport' = r.transport
                  /\ issued' = IF r.opt.kind = "TLSTransport" /\ Cardinality(issued) < MaxIssued
                               THEN issued \cup {[tr |-> r.opt.rt.tr,
                                                  tlsClientConfig |-> r.tlsClientConfig]}
                               ELSE issued
                  /\ last' = [op |-> "GetHTTPOption", c |-> c, addr |-> addr, repo |-> repo,
                              in |-> in, baBefore |-> baHeap, res |-> r]
                  /\ UNCHANGED <<tlsHeap, sslCertDir>>

\* the caller takes the result of the call; the heaps, the global transport
\* and the options it holds stay as the call left them
Return ==
    /\ last # NoCall
    /\ last' = NoCall
    /\ UNCHANGED <<tlsHeap, baHeap, sslCertDir, defaultTransport, issued>>

NextDefaults == CallApplyDefaults \/ Return
NextCreds == CallGetCredentials \/ Return
Next == CallGetHTTPOption \/ Return

SpecDefaults == InitDefaults /\ [][NextDefaults]_vars
SpecCreds == InitCreds /\ [][NextCreds]_vars
Spec == Init /\ [][Next]_vars

-----------------------------------------------------------------------------
(* Properties of GetHTTPOption, checked under Spec *)

IsOptionCall == last.op = "GetHTTPOption"

\* the context BuildClient yields for the TLSConfig the receiver points to
ContextOfSpec(c) == [nil |-> FALSE, caPath |-> tlsHeap[c.TLS].caPath]

\* C1: with BasicAuth == nil and RemoteCredentialsStore == "", GetHTTPOption
\* resolves no credentials (no helper call, no password-file read) and the
\* option follows from the TLS spec alone: no TLS gives the no-op option and
\* no error; a TLS spec that builds gives the TLS-only option carrying the
\* context built from that spec.
C1_NoAuthOptionFromTLSAlone ==
    (IsOptionCall /\ last.c.BasicAuth = NilPtr /\ last.c.RemoteCredentialsStore = "") =>
        /\ ~last.res.resolved
        /\ last.res.cred.helperCalls = 0
        /\ last.res.cred.reads = 0
        /\ last.c.TLS = NilPtr => (last.res.err = NoErr /\ last.res.opt = SendNoop)
        /\ (last.c.TLS # NilPtr /\ last.in.tlsOk) =>
              /\ last.res.err = NoErr
              /\ last.res.opt.kind = "TLS"
              /\ last.res.opt.tls = ContextOfSpec(last.c)

C1_Witness ==
    /\ IsOptionCall
    /\ last.c.BasicAuth = NilPtr /\ last.c.RemoteCredentialsStore = ""
    /\ last.c.TLS # NilPtr /\ last.in.tlsOk
    /\ last.res.opt.kind = "TLS"
    /\ last.res.opt.tls.caPath = "/ca"

\* C2: whenever basic-auth is implied (BasicAuth != nil or a helper name is
\* set) and GetHTTPOption succeeds, the option is the basic-auth transport
\* option over the default transport, carrying the resolved identity for
\* (addr, repo): never the TLS-only or the no-op option, with or without a
\* TLS spec, also when the resolved identity is empty.
C2_ImpliedAuthGivesBasicAuthOption ==
    (/\ IsOptionCall
     /\ (last.c.BasicAuth # NilPtr \/ last.c.RemoteCredentialsStore # "")
     /\ last.res.err = NoErr) =>
        /\ last.res.opt.kind = "TLSTransport"
        /\ last.res.opt.rt.tr = DefaultTransportPtr
        /\ last.res.opt.rt.authConfig = last.res.cred.auth
        /\ last.res.opt.rt.addr = last.addr
        /\ last.res.opt.rt.repo = last.repo

C2_Witness ==
    /\ IsOptionCall
    /\ last.c.BasicAuth # NilPtr /\ last.c.RemoteCredentialsStore = ""
    /\ last.c.TLS # NilPtr
    /\ last.res.err = NoErr
    /\ last.res.cred.auth = EmptyAuthConfig
    /\ last.res.opt.kind = "TLSTransport"

\* C6: no partial success and no fallback: GetHTTPOption returns an error
\* and no option whenever the TLS build fails (with or without basic-auth),
\* a password-file read fails, or the helper fails; with both static
\* credentials and a helper, a failing helper makes the call fail with the
\* helper's error.
C6_NoPartialSuccess ==
    IsOptionCall =>
        LET c == last.c
            hasFile == c.BasicAuth # NilPtr /\ last.baBefore[c.BasicAuth].PasswordFile # ""
            tlsFails == c.TLS # NilPtr /\ ~last.in.tlsOk
            readFails == hasFile /\ (last.in.file1.err
                                     \/ (c.RemoteCredentialsStore # "" /\ last.in.file2.err))
            helperFails == c.RemoteCredentialsStore # "" /\ last.in.helper.err
        IN /\ (tlsFails \/ readFails \/ helperFails) =>
                  (last.res.err # NoErr /\ last.res.opt = NoOption)
           /\ (c.BasicAuth # NilPtr /\ helperFails /\ ~tlsFails /\ ~last.in.file1.err) =>
                  last.res.err = "get credentials: get credentials from helper: helper failed"

C6_Witness ==
    /\ IsOptionCall
    /\ last.c.BasicAuth # NilPtr /\ last.c.RemoteCredentialsStore # ""
    /\ last.baBefore[last.c.BasicAuth].Username = "u"
    /\ last.in.helper.err
    /\ last.in.tlsOk /\ ~last.in.file1.err
    /\ last.res.opt = NoOption
    /\ last.res.err # NoErr

\* C9: calls are independent: every basic-auth option returned earlier still
\* uses the TLS context built by its own call (the default when that call
\* had no TLS spec); no later call changes it.
C9_IssuedOptionsKeepTheirTLS ==
    \A o \in issued :
        o.tr = DefaultTransportPtr => defaultTransport.TLSClientConfig = o.tlsClientConfig

\* C10: GetHTTPOption treats the configuration as read-only: after any call,
\* failed or not, the BasicAuth object the Config points to is unchanged; in
\* particular the inline Password is not overwritten with the file's contents.
C10_ConfigReadOnly ==
    IsOptionCall => (baHeap = last.baBefore /\ tlsHeap = TwoTLSConfigs)

-----------------------------------------------------------------------------
(* Properties of getCredentials, checked under SpecCreds *)

IsCredsCall == last.op = "getCredentials"

\* C3: with both static BasicAuth and a helper, and the helper succeeding,
\* the resolved identity has ServerAddress = addr, its secret is the
\* helper's, and no static Username or Password survives into it.
C3_HelperPrecedence ==
    (/\ IsCredsCall
     /\ last.c.BasicAuth # NilPtr /\ last.c.RemoteCredentialsStore # ""
     /\ last.res.err = NoErr) =>
        LET static == baHeap[last.c.BasicAuth]
            auth == last.res.auth
        IN /\ auth.ServerAddress = last.addr
           /\ (auth.Password = last.in.helper.Secret
               \/ auth.IdentityToken = last.in.helper.Secret)
           /\ static.Username # "" => auth.Username # static.Username
           /\ static.Password # <<>> => auth.Password # static.Password

\* C4: token and password are mutually exclusive: when the helper succeeds,
\* a principal equal to "<token>" gives IdentityToken = secret with no
\* Username and no Password; any other principal gives Username/Password =
\* principal/secret with no IdentityToken - for every Config.
C4_TokenXorPassword ==
    (IsCredsCall /\ last.c.RemoteCredentialsStore # "" /\ last.res.err = NoErr) =>
        LET h == last.in.helper
            auth == last.res.auth
        IN IF h.Username = tokenUsername
           THEN auth.IdentityToken = h.Secret /\ auth.Username = "" /\ auth.Password = <<>>
           ELSE auth.Username = h.Username /\ auth.Password = h.Secret
                /\ auth.IdentityToken = <<>>

\* C5: static BasicAuth with a PasswordFile and no helper: resolution fails,
\* with the read-password-file error, iff the file cannot be read; otherwise
\* Password is the file's entire contents, Username and ServerAddress are
\* the configured ones.
C5_PasswordFile ==
    (/\ IsCredsCall
     /\ last.c.BasicAuth # NilPtr /\ last.c.RemoteCredentialsStore = ""
     /\ last.baBefore[last.c.BasicAuth].PasswordFile # "") =>
        LET static == last.baBefore[last.c.BasicAuth]
        IN /\ (last.res.err # NoErr) <=> last.in.file1.err
           /\ last.in.file1.err =>
                  last.res.err = "get basic auth config: read password file"
           /\ ~last.in.file1.err =>
                  last.res.auth = [Username |-> static.Username,
                                   Password |-> last.in.file1.data,
                                   IdentityToken |-> static.IdentityToken,
                                   ServerAddress |-> static.ServerAddress]

C5_Witness ==
    /\ IsCredsCall
    /\ last.c.BasicAuth # NilPtr /\ last.c.RemoteCredentialsStore = ""
    /\ last.baBefore[last.c.BasicAuth].PasswordFile # ""
    /\ last.baBefore[last.c.BasicAuth].Password = <<"p">>
    /\ last.baBefore[last.c.BasicAuth].ServerAddress = "static.example.com"
    /\ ~last.in.file1.err
    /\ last.res.auth.Password = <<"f", "\n">>

-----------------------------------------------------------------------------
(* Properties of ApplyDefaults, checked under SpecDefaults *)

IsDefaultsCall == last.op = "ApplyDefaults"

\* C7: ApplyDefaults leaves the caller's Config as it was - every TLSConfig
\* that existed before the call, the receiver's in particular, is unchanged -
\* and the result's TLS does not alias the receiver's TLS.
C7_DefaultsDoNotTouchOriginal ==
    IsDefaultsCall =>
        /\ \A a \in TLSAddrs : last.tlsBefore[a].alloc => tlsHeap[a] = last.tlsBefore[a]
        /\ last.c.TLS # NilPtr => last.ret.TLS # last.c.TLS

\* C8: the Config ApplyDefaults returns has a non-nil TLS whose CA path is
\* the explicit path if non-empty, else SSL_CERT_DIR if set, else the default
\* system path; BasicAuth and RemoteCredentialsStore are returned as given.
C8_DefaultedCAPath ==
    IsDefaultsCall =>
        LET explicit == IF last.c.TLS # NilPtr THEN last.tlsBefore[last.c.TLS].caPath ELSE ""
        IN /\ last.ret.TLS # NilPtr
           /\ tlsHeap[last.ret.TLS].alloc
           /\ tlsHeap[last.ret.TLS].caPath =
                 IF explicit # "" THEN explicit
                 ELSE IF sslCertDir # "" THEN sslCertDir
                 ELSE DefaultCACertsPath
           /\ last.ret.BasicAuth = last.c.BasicAuth
           /\ last.ret.RemoteCredentialsStore = last.c.RemoteCredentialsStore

C8_Witness ==
    /\ IsDefaultsCall
    /\ last.c.TLS # NilPtr
    /\ last.tlsBefore[last.c.TLS].caPath = "/ca"
    /\ sslCertDir = "/env"
    /\ tlsHeap[last.ret.TLS].caPath = "/ca"

====
